---- MODULE Spec2Model ----
(***************************************************************************)
(* Bet lifecycle of the prediction-market backend: placing a bet           *)
(* (routes/bets.js POST /), cancelling a bet (routes/bets.js DELETE /:id), *)
(* resolving a market (the markets router, src/unnamed/part_001,           *)
(* POST /:id/resolve), adjusting a balance (the admin router, second half  *)
(* of models/Bet.js, POST /users/:id/balance) and the model methods they   *)
(* call                                                                    *)
(* (Transaction.createTransaction, Market.updateOdds, Market.isOpen,       *)
(* Market.resolve, Bet.refund, ...).  The Market model is the second half  *)
(* of models/Transaction.js, the User model is src/unnamed/part_000.       *)
(*                                                                         *)
(* Every route handler is an async function; between two awaits other      *)
(* requests run, so each handler is split where it awaits a read or a      *)
(* write of the committed store.                                           *)
(*                                                                         *)
(* Storage: a document written with save({session}) inside a transaction   *)
(* is staged in the request and becomes visible to the other requests at   *)
(* commitTransaction; a read or write without a session acts on the        *)
(* committed documents at once.  save() writes the modified paths of the   *)
(* document only ($set), never the whole document.  The store does not     *)
(* detect conflicting writes and the handlers never retry: the last write  *)
(* of a path stands.                                                       *)
(***************************************************************************)
EXTENDS Integers, Sequences, FiniteSets, TLC

\* ------------------------------------------------------------ bounds ----
MaxOps == 3          \* requests admitted in one behaviour
MaxInFlight == 2     \* requests running concurrently
MaxTicks == 4        \* clock readings after the first

\* --------------------------------------------------- program constants --
StartingBalance == 1000
DefaultLiquidity == 10000
GraceMs == 5 * 60 * 1000

\* ------------------------------------------------------- environment ----
Users == {"u1", "u2"}
Markets == {"m1"}
MarketIds == Markets \cup {"missing"}
OptionInputs == {"yes", "no", "maybe"}
Amounts == {0, 400, 1200}
AdjustAmounts == {0 - 700, 300}

\* The markets that exist: created through POST /markets, which stores the
\* options, the type and the end date and calls calculateInitialOdds.
\* CreateInputs are the bodies POST /markets accepts for the pricing of
\* markets of every type with two and with three options: the type is one
\* of the three of the enum and options is an array of at least two
\* entries, whatever the type.  part_001 109-114
MarketTypes == {"binary", "multiple", "range"}
CreateInputs ==
  [binary2   |-> [type |-> "binary",   options |-> <<"yes", "no">>],
   binary3   |-> [type |-> "binary",   options |-> <<"yes", "no", "maybe">>],
   multiple2 |-> [type |-> "multiple", options |-> <<"yes", "no">>],
   multiple3 |-> [type |-> "multiple", options |-> <<"yes", "no", "maybe">>],
   range2    |-> [type |-> "range",    options |-> <<"yes", "no">>],
   range3    |-> [type |-> "range",    options |-> <<"yes", "no", "maybe">>]]
MarketConfig ==
  [m \in Markets \cup DOMAIN CreateInputs |->
     IF m \in Markets
     THEN [type |-> "binary", options |-> <<"yes", "no">>,
           endDate |-> 302000, liquidity |-> DefaultLiquidity]
     ELSE [type |-> CreateInputs[m].type,
           options |-> CreateInputs[m].options,
           endDate |-> 302000, liquidity |-> DefaultLiquidity]]

\* Date.now() as read by the handlers: 0:00, 4:59, 5:00, 5:01, ...
ClockAt(t) == IF t = 0 THEN 0 ELSE 298000 + t * 1000

Range(s) == {s[i] : i \in DOMAIN s}

\* -------------------------------------------------------------- prices --
\* A price is kept in closed form: Lmsr(d) stands for
\* 1 / (1 + exp(d / liquidity)) and Frac(n) for 1 / n; 1/2 is Lmsr(0).
Lmsr(d) == [k |-> "lmsr", v |-> d]
Frac(n) == IF n = 2 THEN Lmsr(0) ELSE [k |-> "frac", v |-> n]

\* The initial odds that put 1/2 on the first two options of every market.
calculateInitialOdds_FirstTwo(cfg) ==
  [o \in {cfg.options[1], cfg.options[2]} |-> Frac(2)]

\* Market.calculateInitialOdds  Transaction.js 180-193
calculateInitialOdds(cfg) ==
  IF cfg.type = "binary"
  THEN [o \in {cfg.options[1], cfg.options[2]} |-> Frac(2)]
  ELSE [o \in Range(cfg.options) |-> Frac(Len(cfg.options))]

\* Math.exp(d / liquidity) and the price as numbers, in ten-thousandths:
\* the exponential by its series up to the fourth power, which is exact to
\* the last digit kept for the pools that occur.  Transaction.js 185, 219
Exp(d, liquidity) ==
  LET x == (d * 10000) \div liquidity
      t2 == (x * x) \div 20000
      t3 == (t2 * x) \div 30000
      t4 == (t3 * x) \div 40000
  IN 10000 + x + t2 + t3 + t4
Value(p, liquidity) ==
  IF p.k = "frac" THEN 10000 \div p.v
  ELSE 100000000 \div (10000 + Exp(p.v, liquidity))

\* sockets are the connected sockets of the socket.io server and clients
\* is the clients map of the WebSocketService.
VARIABLES users, markets, bets, ledger, tick, req, ops, sockets, clients

vars == <<users, markets, bets, ledger, tick, req, ops, sockets, clients>>
db == <<users, markets, bets, ledger>>

now == ClockAt(tick)

\* A registered user: the starting balance and the counters at their
\* defaults.  part_000 26-49
NewUser ==
  [balance |-> StartingBalance, totalBets |-> 0, winningBets |-> 0,
   winRate |-> 0]

\* new Market({...}), market.calculateInitialOdds() and market.save() of
\* POST /markets.  part_001 136-153
NewMarket(m) ==
  [status |-> "open", resolution |-> "none", resolutionDate |-> 0 - 1,
   currentOdds |-> calculateInitialOdds(MarketConfig[m]),
   totalVolume |-> 0, participantCount |-> 0]

Init ==
  /\ users = [u \in Users |-> NewUser]
  /\ markets = [m \in Markets |-> NewMarket(m)]
  /\ bets = {}
  /\ ledger = <<>>
  /\ tick = 0
  /\ req = {}
  /\ ops = 0
  /\ sockets = {}
  /\ clients = <<>>

\* ------------------------------------------------------------ helpers ---
\* A request is admitted while the bounds allow it; ops counts the requests
\* and slot tells the running ones apart.
Admit == ops < MaxOps /\ Cardinality(req) < MaxInFlight
FreeSlot == CHOOSE i \in 1..MaxInFlight :
              /\ \A rq \in req : rq.slot # i
              /\ \A j \in 1..(i - 1) : \E rq \in req : rq.slot = j

\* The handler goes on to its next await.
Start(new) == req' = req \cup {new}
Goto(rq, fields) == req' = (req \ {rq}) \cup {fields @@ rq}

\* res.status(code).json(...): the handler has built its response, which
\* is on its way to the caller.
Response(slot, kind, code, what) ==
  [pc |-> "respond", slot |-> slot, kind |-> kind, status |-> code,
   error |-> what]
Respond(rq, code, what) ==
  req' = (req \ {rq}) \cup {Response(rq.slot, rq.kind, code, what)}
RespondNew(kind, code, what) ==
  req' = req \cup {Response(FreeSlot, kind, code, what)}

\* Market.isOpen  Transaction.js 236-238
isOpen(m, doc) == doc.status = "open" /\ now < MarketConfig[m].endDate

\* Bet.calculatePotentialPayout: amount / oddsAtTime, kept as the pair.
calculatePotentialPayout(amount, odds) == [num |-> amount, den |-> odds]

\* Bet.find({ marketId, status: 'active' })
ActiveBets(m) == {b \in bets : b.marketId = m /\ b.status = "active"}

RECURSIVE SumAmount(_)
SumAmount(S) ==
  IF S = {} THEN 0
  ELSE LET b == CHOOSE x \in S : TRUE IN b.amount + SumAmount(S \ {b})

\* ---------------------------------------------------------- placeBet ----

\* auth loads req.user; express-validator; the balance check.  startBalance
\* and startLen keep the balance and the length of the ledger at the
\* arrival of the request, for the statements about the placement.
\* bets.js 24-40
PlaceBegin(u, m, o, a) ==
  /\ Admit
  /\ ops' = ops + 1
  /\ UNCHANGED <<users, markets, bets, ledger, tick, sockets, clients>>
  /\ IF a < 1
     THEN RespondNew("place", 400, "Validation failed")
     ELSE IF users[u].balance < a
     THEN RespondNew("place", 400, "Insufficient balance")
     ELSE Start([pc |-> "p_findMarket", kind |-> "place", slot |-> FreeSlot,
                 id |-> ops + 1, user |-> u, market |-> m, option |-> o,
                 amount |-> a, userDoc |-> users[u],
                 startBalance |-> users[u].balance,
                 startLen |-> Len(ledger)])

\* Market.findById, isOpen, options.includes.  bets.js 42-55
PlaceFindMarket(rq) ==
  /\ rq.pc = "p_findMarket"
  /\ UNCHANGED <<users, markets, bets, ledger, tick, ops, sockets, clients>>
  /\ LET m == rq.market IN
     IF m \notin Markets
     THEN Respond(rq, 404, "Market not found")
     ELSE IF ~isOpen(m, markets[m])
     THEN Respond(rq, 400, "Market is not open for betting")
     ELSE IF rq.option \notin Range(MarketConfig[m].options)
     THEN Respond(rq, 400, "Invalid betting option")
     ELSE Goto(rq, [pc |-> "p_findExisting", marketDoc |-> markets[m]])

\* The debit forgotten on the in-memory user.
DebitUser_NoDebit(doc, amount) == [doc EXCEPT !.totalBets = @ + 1]

\* user.balance -= amount; user.totalBets += 1.  bets.js 92-93
DebitUser(doc, amount) ==
  [doc EXCEPT !.balance = @ - amount, !.totalBets = @ + 1]

\* The bet created without its potential payout computed.
NewBet_NoPayout(rq, odds) ==
  [id |-> rq.id, userId |-> rq.user, marketId |-> rq.market,
   option |-> rq.option, amount |-> rq.amount, oddsAtTime |-> odds,
   potentialPayout |-> 0,
   status |-> "active", createdAt |-> now, settledAt |-> 0 - 1,
   actualPayout |-> 0]

\* new Bet({...}) and bet.calculatePotentialPayout().  bets.js 80-89
NewBet(rq, odds) ==
  [id |-> rq.id, userId |-> rq.user, marketId |-> rq.market,
   option |-> rq.option, amount |-> rq.amount, oddsAtTime |-> odds,
   potentialPayout |-> calculatePotentialPayout(rq.amount, odds),
   status |-> "active", createdAt |-> now, settledAt |-> 0 - 1,
   actualPayout |-> 0]

\* Bet.findOne({ userId, marketId, status: 'active' }) without a session.
\* bets.js 58-62
existingBet(u, m) ==
  \E b \in bets : b.userId = u /\ b.marketId = m /\ b.status = "active"

\* The user debited and saved before the check for an active bet.
PlaceFindExisting_DebitFirst(rq) ==
  /\ rq.pc = "p_findExisting"
  /\ UNCHANGED <<markets, bets, ledger, tick, ops, sockets, clients>>
  /\ LET odds == rq.marketDoc.currentOdds IN
     IF existingBet(rq.user, rq.market)
     THEN /\ users' = [users EXCEPT ![rq.user] =
                         DebitUser(rq.userDoc, rq.amount)]
          /\ Respond(rq, 400,
                     "You already have an active bet on this market")
     ELSE /\ UNCHANGED users
          /\ IF rq.option \notin DOMAIN odds
             THEN Respond(rq, 400, "Odds not available for this option")
             ELSE Goto(rq, [pc |-> "tx_find", ret |-> "p_distinct",
                            bet |-> NewBet(rq, odds[rq.option]),
                            userDoc |-> DebitUser(rq.userDoc, rq.amount),
                            tx |-> [type |-> "bet",
                                    amount |-> 0 - rq.amount,
                                    relatedBetId |-> rq.id]])

\* The check for an active bet of the user on the market and the odds of
\* the option; then the transaction is started and the debited user and
\* the new bet are saved in the session.  bets.js 57-97
PlaceFindExisting(rq) ==
  /\ rq.pc = "p_findExisting"
  /\ UNCHANGED <<users, markets, bets, ledger, tick, ops, sockets, clients>>
  /\ LET odds == rq.marketDoc.currentOdds IN
     IF existingBet(rq.user, rq.market)
     THEN Respond(rq, 400, "You already have an active bet on this market")
     ELSE IF rq.option \notin DOMAIN odds
     THEN Respond(rq, 400, "Odds not available for this option")
     ELSE Goto(rq, [pc |-> "tx_find", ret |-> "p_distinct",
                    bet |-> NewBet(rq, odds[rq.option]),
                    userDoc |-> DebitUser(rq.userDoc, rq.amount),
                    tx |-> [type |-> "bet", amount |-> 0 - rq.amount,
                            relatedBetId |-> rq.id]])

\* -------------------------------------- Transaction.createTransaction ---
\* User.findById(data.userId), without a session: the committed user.
\* Transaction.js 58-63
TxFind(rq) ==
  /\ rq.pc = "tx_find"
  /\ UNCHANGED <<users, markets, bets, ledger, tick, ops, sockets, clients>>
  /\ Goto(rq, [pc |-> "tx_saveUser", txBal |-> users[rq.user].balance])

\* The entry that records the balance read as the balance left.
NewTransaction_StaleAfter(u, data, balance) ==
  [userId |-> u, type |-> data.type, amount |-> data.amount,
   balanceBefore |-> balance, balanceAfter |-> balance,
   relatedBetId |-> data.relatedBetId]

\* The ledger entry built from the balance that was read.
\* Transaction.js 65-69
NewTransaction(u, data, balance) ==
  [userId |-> u, type |-> data.type, amount |-> data.amount,
   balanceBefore |-> balance, balanceAfter |-> balance + data.amount,
   relatedBetId |-> data.relatedBetId]

\* The save of the user without the validator of the balance.
TxSaveUser_NoValidator(rq) ==
  /\ rq.pc = "tx_saveUser"
  /\ UNCHANGED <<markets, bets, ledger, tick, ops, sockets, clients>>
  /\ users' = [users EXCEPT ![rq.user].balance = rq.txBal + rq.tx.amount]
  /\ Goto(rq, [pc |-> "tx_insert"])

\* user.balance += data.amount; await user.save(), without a session; the
\* schema's min: 0 on balance makes the save throw, and the route handler
\* then aborts its transaction and answers 500.  Transaction.js 71-73
TxSaveUser(rq) ==
  /\ rq.pc = "tx_saveUser"
  /\ UNCHANGED <<markets, bets, ledger, tick, ops, sockets, clients>>
  /\ LET balance == rq.txBal + rq.tx.amount IN
     IF balance < 0
     THEN /\ Respond(rq, 500, "Server error")
          /\ UNCHANGED users
     ELSE /\ users' = [users EXCEPT ![rq.user].balance = balance]
          /\ Goto(rq, [pc |-> "tx_insert"])

\* transaction.save(); createTransaction returns and the route handler
\* calls market.updateOdds() or, in the admin router, answers.
\* Transaction.js 75, Bet.js 439-444
TxInsert(rq) ==
  /\ rq.pc = "tx_insert"
  /\ UNCHANGED <<users, markets, bets, tick, ops, sockets, clients>>
  /\ ledger' = Append(ledger, NewTransaction(rq.user, rq.tx, rq.txBal))
  /\ IF rq.kind = "adjust"
     THEN Respond(rq, 200, "none")
     ELSE Goto(rq, [pc |-> "uo_find"])

\* ---------------------------------------------------- Market.updateOdds --
\* poolByOption over the active bets that were found.  Transaction.js 200-205
PoolOf(S, o) == SumAmount({b \in S : b.option = o})

\* The price of every option with a pool, then of the options without.
\* Transaction.js 214-227
LmsrOdds(cfg, S) ==
  LET totalPool == SumAmount(S)
      keys == {b.option : b \in S}
  IN [o \in keys \cup Range(cfg.options) |->
        IF o \in keys
        THEN Lmsr((totalPool - PoolOf(S, o)) - PoolOf(S, o))
        ELSE Lmsr(totalPool)]

\* Document.set: a path is modified when the new value differs.
Modified(doc, new) ==
  {f \in {"currentOdds", "totalVolume", "participantCount"} :
     doc[f] # new[f]}

\* Bet.find({ marketId, status: 'active' }) without a session, then the
\* odds in the in-memory document; with an empty pool the initial odds are
\* set and the method returns without saving.  Transaction.js 196-230
OddsFind(rq) ==
  /\ rq.pc = "uo_find"
  /\ UNCHANGED <<users, markets, bets, ledger, tick, ops, sockets, clients>>
  /\ LET m == rq.market
         S == ActiveBets(m)
         doc == rq.marketDoc
     IN
     IF SumAmount(S) = 0
     THEN LET new == [doc EXCEPT
                        !.currentOdds = calculateInitialOdds(MarketConfig[m])]
          IN Goto(rq, [pc |-> rq.ret, marketDoc |-> new,
                       modified |-> Modified(doc, new)])
     ELSE LET new == [doc EXCEPT
                        !.currentOdds = LmsrOdds(MarketConfig[m], S),
                        !.totalVolume = SumAmount(S)]
          IN Goto(rq, [pc |-> "uo_save", marketDoc |-> new,
                       modified |-> Modified(doc, new)])

\* The modified paths of the in-memory document written over the stored one.
SavePaths(stored, doc, paths) ==
  [f \in DOMAIN stored |-> IF f \in paths THEN doc[f] ELSE stored[f]]

\* await this.save(), without a session.  Transaction.js 232
OddsSave(rq) ==
  /\ rq.pc = "uo_save"
  /\ UNCHANGED <<users, bets, ledger, tick, ops, sockets, clients>>
  /\ markets' = [markets EXCEPT ![rq.market] =
                   SavePaths(@, rq.marketDoc, rq.modified)]
  /\ Goto(rq, [pc |-> rq.ret, modified |-> {}])

\* ------------------------------------------------- placeBet, continued --
\* Bet.distinct('userId', { marketId }) without a session.  bets.js 113
distinctUsers(m) == {b.userId : b \in {x \in bets : x.marketId = m}}

\* The participant count, then market.save({ session }).  bets.js 112-115
PlaceDistinct(rq) ==
  /\ rq.pc = "p_distinct"
  /\ UNCHANGED <<users, markets, bets, ledger, tick, ops, sockets, clients>>
  /\ LET new == [rq.marketDoc EXCEPT
                   !.participantCount = Cardinality(distinctUsers(rq.market))]
     IN Goto(rq, [pc |-> "p_commit", marketDoc |-> new,
                  modified |-> rq.modified \cup Modified(rq.marketDoc, new)])

\* session.commitTransaction(): the user, the bet and the market saved in
\* the session are written.  Then new WebSocketService() is called without
\* its io argument, its constructor throws on this.io.on, and the handler
\* answers 500 after the commit.  bets.js 117-146, websocketService.js 5-13
PlaceCommit(rq) ==
  /\ rq.pc = "p_commit"
  /\ UNCHANGED <<ledger, tick, ops, sockets, clients>>
  /\ users' = [users EXCEPT ![rq.user] = rq.userDoc]
  /\ bets' = bets \cup {rq.bet}
  /\ markets' = [markets EXCEPT ![rq.market] =
                   SavePaths(@, rq.marketDoc, rq.modified)]
  /\ Respond(rq, 500, "Server error after commit")

\* --------------------------------------------------------- cancelBet ----
BetIds == 1..MaxOps

\* The refund that leaves the payout of the bet at 0.
refund_NoPayout(b) == [b EXCEPT !.status = "refunded", !.settledAt = now]

\* The refund that records the potential payout as paid.
refund_PotentialPayout(b) ==
  [b EXCEPT !.status = "refunded", !.actualPayout = b.potentialPayout,
            !.settledAt = now]

\* Bet.refund  Bet.js 76-80
refund(b) ==
  [b EXCEPT !.status = "refunded", !.actualPayout = b.amount,
            !.settledAt = now]

\* Bet.findById, the owner check and the status check.  startBalance and
\* startLen are kept as in PlaceBegin.  bets.js 301-315
CancelBegin(u, id) ==
  /\ Admit
  /\ ops' = ops + 1
  /\ UNCHANGED <<users, markets, bets, ledger, tick, sockets, clients>>
  /\ IF ~\E b \in bets : b.id = id
     THEN RespondNew("cancel", 404, "Bet not found")
     ELSE LET bet == CHOOSE b \in bets : b.id = id IN
          IF bet.userId # u
          THEN RespondNew("cancel", 403, "Access denied")
          ELSE IF bet.status # "active"
          THEN RespondNew("cancel", 400, "Cannot cancel settled bet")
          ELSE Start([pc |-> "c_findMarket", kind |-> "cancel",
                      slot |-> FreeSlot, user |-> u, market |-> bet.marketId,
                      bet |-> bet, startBalance |-> users[u].balance,
                      startLen |-> Len(ledger)])

\* The window closed at exactly five minutes.
TooOld_AtBoundary(betAge) == betAge >= GraceMs

\* betAge > 5 * 60 * 1000  bets.js 324-325
TooOld(betAge) == betAge > GraceMs

\* The bet stored as refunded before the market and the window are checked.
CancelFindMarket_RefundFirst(rq) ==
  /\ rq.pc = "c_findMarket"
  /\ UNCHANGED <<users, markets, ledger, tick, ops, sockets, clients>>
  /\ bets' = (bets \ {rq.bet}) \cup {refund(rq.bet)}
  /\ IF ~isOpen(rq.market, markets[rq.market])
     THEN Respond(rq, 400, "Cannot cancel bet after market has closed")
     ELSE IF TooOld(now - rq.bet.createdAt)
     THEN Respond(rq, 400,
                  "Can only cancel bets within 5 minutes of placement")
     ELSE Goto(rq, [pc |-> "c_findUser", marketDoc |-> markets[rq.market],
                    betAge |-> now - rq.bet.createdAt,
                    bet |-> refund(rq.bet)])

\* Market.findById, isOpen and the age of the bet; then the transaction is
\* started and the refunded bet is saved in the session.  bets.js 317-336
CancelFindMarket(rq) ==
  /\ rq.pc = "c_findMarket"
  /\ UNCHANGED <<users, markets, bets, ledger, tick, ops, sockets, clients>>
  /\ IF ~isOpen(rq.market, markets[rq.market])
     THEN Respond(rq, 400, "Cannot cancel bet after market has closed")
     ELSE IF TooOld(now - rq.bet.createdAt)
     THEN Respond(rq, 400,
                  "Can only cancel bets within 5 minutes of placement")
     ELSE Goto(rq, [pc |-> "c_findUser", marketDoc |-> markets[rq.market],
                    betAge |-> now - rq.bet.createdAt,
                    bet |-> refund(rq.bet)])

\* The user saved in the session without the amount of the bet added.
CancelFindUser_NoCredit(rq) ==
  /\ rq.pc = "c_findUser"
  /\ UNCHANGED <<users, markets, bets, ledger, tick, ops, sockets, clients>>
  /\ Goto(rq, [pc |-> "tx_find", ret |-> "c_commit",
               userDoc |-> users[rq.user],
               tx |-> [type |-> "refund", amount |-> rq.bet.amount,
                       relatedBetId |-> rq.bet.id]])

\* User.findById(...).session(session), user.balance += bet.amount and
\* user.save({ session }); then createTransaction.  bets.js 338-351
CancelFindUser(rq) ==
  /\ rq.pc = "c_findUser"
  /\ UNCHANGED <<users, markets, bets, ledger, tick, ops, sockets, clients>>
  /\ Goto(rq, [pc |-> "tx_find", ret |-> "c_commit",
               userDoc |-> [users[rq.user] EXCEPT
                              !.balance = @ + rq.bet.amount],
               tx |-> [type |-> "refund", amount |-> rq.bet.amount,
                       relatedBetId |-> rq.bet.id]])

\* session.commitTransaction(): the status, payout and settlement time of
\* the bet and the balance of the user are written.  bets.js 356-362
CancelCommit(rq) ==
  /\ rq.pc = "c_commit"
  /\ UNCHANGED <<markets, ledger, tick, ops, sockets, clients>>
  /\ bets' = {IF b.id = rq.bet.id
              THEN [b EXCEPT !.status = rq.bet.status,
                             !.actualPayout = rq.bet.actualPayout,
                             !.settledAt = rq.bet.settledAt]
              ELSE b : b \in bets}
  /\ users' = [users EXCEPT ![rq.user].balance = rq.userDoc.balance]
  /\ Respond(rq, 200, "none")

\* ----------------------------------------------------- resolveMarket ----
\* Market.resolve  Transaction.js 241-245
resolve(doc, resolution) ==
  [doc EXCEPT !.status = "resolved", !.resolution = resolution,
              !.resolutionDate = now]

\* The market resolved and saved before the option is checked.
ResolveBegin_SaveFirst(m, resolution) ==
  /\ Admit
  /\ ops' = ops + 1
  /\ UNCHANGED <<users, bets, ledger, tick, sockets, clients>>
  /\ IF m \notin Markets
     THEN /\ RespondNew("resolve", 404, "Market not found")
          /\ UNCHANGED markets
     ELSE IF markets[m].status # "open" /\ markets[m].status # "closed"
     THEN /\ RespondNew("resolve", 400, "Market cannot be resolved")
          /\ UNCHANGED markets
     ELSE IF resolution \notin Range(MarketConfig[m].options)
     THEN /\ RespondNew("resolve", 400, "Invalid resolution option")
          /\ markets' = [markets EXCEPT ![m] = resolve(@, resolution)]
     ELSE /\ Start([pc |-> "r_save", kind |-> "resolve", slot |-> FreeSlot,
                    market |-> m,
                    marketDoc |-> resolve(markets[m], resolution)])
          /\ UNCHANGED markets

\* Market.findById, the status check and the option check.
\* part_001 236-253
ResolveBegin(m, resolution) ==
  /\ Admit
  /\ ops' = ops + 1
  /\ UNCHANGED <<users, markets, bets, ledger, tick, sockets, clients>>
  /\ IF m \notin Markets
     THEN RespondNew("resolve", 404, "Market not found")
     ELSE IF markets[m].status # "open" /\ markets[m].status # "closed"
     THEN RespondNew("resolve", 400, "Market cannot be resolved")
     ELSE IF resolution \notin Range(MarketConfig[m].options)
     THEN RespondNew("resolve", 400, "Invalid resolution option")
     ELSE Start([pc |-> "r_save", kind |-> "resolve", slot |-> FreeSlot,
                 market |-> m,
                 marketDoc |-> resolve(markets[m], resolution)])

\* The handler going on to the settlement with the market not saved.
ResolveSave_NotSaved(rq) ==
  /\ rq.pc = "r_save"
  /\ UNCHANGED <<users, markets, bets, ledger, tick, ops, sockets, clients>>
  /\ Goto(rq, [pc |-> "r_findBets"])

\* await market.save()  part_001 254
ResolveSave(rq) ==
  /\ rq.pc = "r_save"
  /\ UNCHANGED <<users, bets, ledger, tick, ops, sockets, clients>>
  /\ markets' = [markets EXCEPT ![rq.market] =
                   SavePaths(@, rq.marketDoc, {"status", "resolution", "resolutionDate"})]
  /\ Goto(rq, [pc |-> "r_findBets"])

\* Bet.settle  Bet.js 63-73
settle(b, marketResolution) ==
  IF b.option = marketResolution
  THEN [b EXCEPT !.status = "won", !.actualPayout = b.potentialPayout,
                 !.settledAt = now]
  ELSE [b EXCEPT !.status = "lost", !.actualPayout = 0, !.settledAt = now]

\* The settlement loop with mongoose in scope: every bet found active is
\* settled and stored.
ResolveFindBets_Settling(rq) ==
  /\ rq.pc = "r_findBets"
  /\ UNCHANGED <<users, markets, ledger, tick, ops, sockets, clients>>
  /\ LET activeBets == ActiveBets(rq.market) IN
     /\ bets' = {IF b \in activeBets
                 THEN settle(b, rq.marketDoc.resolution) ELSE b : b \in bets}
     /\ req' = (req \ {rq}) \cup
                 {[market |-> rq.market,
                   activeBets |-> {b.id : b \in activeBets}] @@
                  Response(rq.slot, rq.kind, 200, "none")}

\* The settlement loop failing after bet.save of its first bet, that save
\* being written at once.
ResolveFindBets_BetSaved(rq) ==
  /\ rq.pc = "r_findBets"
  /\ UNCHANGED <<users, markets, ledger, tick, ops, sockets, clients>>
  /\ LET activeBets == ActiveBets(rq.market) IN
     /\ bets' = IF activeBets = {} THEN bets
                ELSE LET b == CHOOSE x \in activeBets : TRUE IN
                     (bets \ {b}) \cup {settle(b, rq.marketDoc.resolution)}
     /\ req' = (req \ {rq}) \cup
                 {[market |-> rq.market,
                   activeBets |-> {b.id : b \in activeBets}] @@
                  (IF activeBets = {}
                   THEN Response(rq.slot, rq.kind, 200, "none")
                   ELSE Response(rq.slot, rq.kind, 500, "Server error"))}

\* The settlement recomputing and storing the prices of the market.
ResolveFindBets_Recompute(rq) ==
  /\ rq.pc = "r_findBets"
  /\ UNCHANGED <<users, bets, ledger, tick, ops, sockets, clients>>
  /\ LET activeBets == ActiveBets(rq.market)
         response == IF activeBets = {}
                     THEN Response(rq.slot, rq.kind, 200, "none")
                     ELSE Response(rq.slot, rq.kind, 500, "Server error")
     IN
     /\ markets' = [markets EXCEPT ![rq.market].currentOdds =
                      IF SumAmount(activeBets) = 0
                      THEN calculateInitialOdds(MarketConfig[rq.market])
                      ELSE LmsrOdds(MarketConfig[rq.market], activeBets)]
     /\ req' = (req \ {rq}) \cup
                 {[market |-> rq.market,
                   activeBets |-> {b.id : b \in activeBets}] @@ response}

\* Bet.find({ marketId, status: 'active' }) and the settlement loop.  The
\* first statement of the loop body is mongoose.startSession(), outside the
\* body's try; the markets router never requires mongoose, so with one
\* active bet or more the loop throws a ReferenceError before any bet is
\* settled and the handler answers 500.  part_001 1-7, 261-315
ResolveFindBets(rq) ==
  /\ rq.pc = "r_findBets"
  /\ UNCHANGED <<users, markets, bets, ledger, tick, ops, sockets, clients>>
  /\ LET activeBets == ActiveBets(rq.market)
         response == IF activeBets = {}
                     THEN Response(rq.slot, rq.kind, 200, "none")
                     ELSE Response(rq.slot, rq.kind, 500, "Server error")
     IN req' = (req \ {rq}) \cup
                 {[market |-> rq.market,
                   activeBets |-> {b.id : b \in activeBets}] @@ response}

\* ----------------------------------------------- admin balance adjust ---
\* User.findById, user.balance += amount and the check of the sign.
\* Bet.js 395-426
AdjustBegin(u, amount) ==
  /\ Admit
  /\ ops' = ops + 1
  /\ UNCHANGED <<users, markets, bets, ledger, tick, sockets, clients>>
  /\ LET user == [users[u] EXCEPT !.balance = @ + amount] IN
     IF user.balance < 0
     THEN RespondNew("adjust", 400,
                     "Insufficient balance for this adjustment")
     ELSE Start([pc |-> "a_save", kind |-> "adjust", slot |-> FreeSlot,
                 user |-> u, amount |-> amount, userDoc |-> user])

\* await user.save(), without a session; then createTransaction with the
\* same amount.  Bet.js 428-437
AdjustSave(rq) ==
  /\ rq.pc = "a_save"
  /\ UNCHANGED <<markets, bets, ledger, tick, ops, sockets, clients>>
  /\ users' = [users EXCEPT ![rq.user].balance =
                 IF rq.amount = 0 THEN @ ELSE rq.userDoc.balance]
  /\ Goto(rq, [pc |-> "tx_find",
               tx |-> [type |-> "admin_adjustment", amount |-> rq.amount,
                       relatedBetId |-> 0]])

\* ------------------------------------------------------ storage fault ---
\* The awaited storage operation of a running handler rejects: the catch
\* block aborts the transaction of the handler, whose staged writes are
\* dropped, and answers 500.  bets.js 136-146, 364-373, part_001 312-315,
\* Bet.js 445-448
StorageFault(rq) ==
  /\ rq.pc # "respond"
  /\ UNCHANGED <<users, markets, bets, ledger, tick, ops, sockets, clients>>
  /\ req' = (req \ {rq}) \cup
              {[id |-> IF rq.kind = "place" THEN rq.id ELSE 0] @@
               Response(rq.slot, rq.kind, 500, "Server error")}

\* The response reaches the caller.
Reply(rq) ==
  /\ rq.pc = "respond"
  /\ req' = req \ {rq}
  /\ UNCHANGED <<users, markets, bets, ledger, tick, ops, sockets, clients>>

\* --------------------------------------------------------------- clock --
Tick ==
  /\ tick < MaxTicks
  /\ tick' = tick + 1
  /\ UNCHANGED <<users, markets, bets, ledger, req, ops, sockets, clients>>

\* A request arrives.
Begin ==
  \/ \E u \in Users, m \in MarketIds, o \in OptionInputs, a \in Amounts :
        PlaceBegin(u, m, o, a)
  \/ \E u \in Users, id \in BetIds : CancelBegin(u, id)
  \/ \E m \in MarketIds, o \in OptionInputs : ResolveBegin(m, o)

\* A running handler resumes after an await.
Step ==
  \/ \E rq \in req : PlaceFindMarket(rq)
  \/ \E rq \in req : PlaceFindExisting(rq)
  \/ \E rq \in req : TxFind(rq)
  \/ \E rq \in req : TxSaveUser(rq)
  \/ \E rq \in req : TxInsert(rq)
  \/ \E rq \in req : OddsFind(rq)
  \/ \E rq \in req : OddsSave(rq)
  \/ \E rq \in req : PlaceDistinct(rq)
  \/ \E rq \in req : PlaceCommit(rq)
  \/ \E rq \in req : CancelFindMarket(rq)
  \/ \E rq \in req : CancelFindUser(rq)
  \/ \E rq \in req : CancelCommit(rq)
  \/ \E rq \in req : ResolveSave(rq)
  \/ \E rq \in req : ResolveFindBets(rq)
  \/ \E rq \in req : Reply(rq)

\* Concurrent requests, all within one reading of the clock.
Next == Begin \/ Step

Spec == Init /\ [][Next]_vars

\* One request at a time, the clock advancing between and during requests.
SerialNext == (req = {} /\ Begin) \/ Step \/ Tick

SerialSpec == Init /\ [][SerialNext]_vars

\* The admin router beside the bets and markets routers, and the storage
\* failing under any running handler.
AdminBegin == \E u \in Users, a \in AdjustAmounts : AdjustBegin(u, a)
AdminStep == \E rq \in req : AdjustSave(rq)
Fault == \E rq \in req : StorageFault(rq)

FullNext == Begin \/ AdminBegin \/ Step \/ AdminStep \/ Fault

FullSpec == Init /\ [][FullNext]_vars

\* One request at a time, the admin router included.
SerialAdminNext ==
  (req = {} /\ (Begin \/ AdminBegin)) \/ Step \/ AdminStep \/ Tick

SerialAdminSpec == Init /\ [][SerialAdminNext]_vars

\* One request at a time, the storage failing under it.
FaultNext == SerialNext \/ Fault

FaultSpec == Init /\ [][FaultNext]_vars

\* ------------------------------------------------------------ pricing --
\* The pricing of the markets POST /markets can create.  The inputs are a
\* created market and the active bets Bet.find returns for it: the bets of
\* the two users placed while the market still carried its initial odds,
\* each on an option that has odds (bets.js 53-72) and with a positive
\* amount.
BetOn(id, u, m, o, a) ==
  LET odds == NewMarket(m).currentOdds[o] IN
  [id |-> id, userId |-> u, marketId |-> m, option |-> o, amount |-> a,
   oddsAtTime |-> odds,
   potentialPayout |-> calculatePotentialPayout(a, odds),
   status |-> "active", createdAt |-> 0, settledAt |-> 0 - 1,
   actualPayout |-> 0]

PoolInputs(m) ==
  LET opts == DOMAIN NewMarket(m).currentOdds
      amts == {a \in Amounts : a >= 1}
      first == {BetOn(1, "u1", m, o, a) : o \in opts, a \in amts}
      second == {BetOn(2, "u2", m, o, a) : o \in opts, a \in amts}
  IN {{}} \cup {{b} : b \in first}
          \cup {{b, c} : b \in first, c \in second}

PricingInit ==
  /\ users = [u \in Users |-> NewUser]
  /\ \E m \in DOMAIN CreateInputs :
        /\ markets = [x \in {m} |-> NewMarket(m)]
        /\ bets \in PoolInputs(m)
  /\ ledger = <<>>
  /\ tick = 0
  /\ req = {}
  /\ ops = 0
  /\ sockets = {}
  /\ clients = <<>>

\* Market.findById and the call of market.updateOdds().  bets.js 43, 110
PriceBegin(m) ==
  /\ req = {}
  /\ ops = 0
  /\ ops' = ops + 1
  /\ UNCHANGED <<users, markets, bets, ledger, tick, sockets, clients>>
  /\ Start([pc |-> "uo_find", kind |-> "price", slot |-> 1, market |-> m,
            marketDoc |-> markets[m], ret |-> "priced"])

PricingNext ==
  \/ \E m \in DOMAIN markets : PriceBegin(m)
  \/ \E rq \in req : OddsFind(rq)
  \/ \E rq \in req : OddsSave(rq)

PricingSpec == PricingInit /\ [][PricingNext]_vars

\* ------------------------------------------------- websocket service ---
\* The tokens a client sends with 'authenticate': one signed for each user,
\* one whose signature jwt.verify rejects and one signed for a user id that
\* User.findById no longer finds.
Tokens == Users \cup {"forged", "stale"}

\* io.on('connection'): a socket connects and gets its handlers; socket
\* ids are never used again.  websocketService.js 13-14
Connect ==
  /\ ops < MaxOps
  /\ ops' = ops + 1
  /\ sockets' = sockets \cup {ops + 1}
  /\ UNCHANGED <<users, markets, bets, ledger, tick, req, clients>>

\* socket.on('authenticate') up to its first await: jwt.verify throws on
\* a forged token and the catch emits the error, else User.findById is
\* awaited.  websocketService.js 17-20, 51-54
Authenticate(s, token) ==
  /\ s \in sockets
  /\ Cardinality(req) < MaxInFlight
  /\ IF token = "forged"
     THEN Start([pc |-> "emit", kind |-> "authenticate", slot |-> FreeSlot,
                 socket |-> s, event |-> "error"])
     ELSE Start([pc |-> "a_findUser", kind |-> "authenticate",
                 slot |-> FreeSlot, socket |-> s, userId |-> token])
  /\ UNCHANGED <<users, markets, bets, ledger, tick, ops, sockets, clients>>

\* User.findById has answered: an active user is put into the clients map
\* under the socket's id and Bet.find is awaited, else the error is
\* emitted.  Users are active unless an admin deactivates them (isActive
\* defaults to true).  websocketService.js 20-30, 48-50
AuthFindUser(rq) ==
  /\ rq.pc = "a_findUser"
  /\ IF rq.userId \in Users
     THEN /\ clients' = (rq.socket :> rq.userId) @@ clients
          /\ Goto(rq, [pc |-> "a_findBets"])
     ELSE /\ UNCHANGED clients
          /\ req' = (req \ {rq}) \cup
                      {[pc |-> "emit", kind |-> "authenticate",
                        slot |-> rq.slot, socket |-> rq.socket,
                        event |-> "error"]}
  /\ UNCHANGED <<users, markets, bets, ledger, tick, ops, sockets>>

\* Bet.find has answered: the socket joins the rooms of the markets and
\* user.save() is awaited.  websocketService.js 30-37
AuthFindBets(rq) ==
  /\ rq.pc = "a_findBets"
  /\ Goto(rq, [pc |-> "a_save"])
  /\ UNCHANGED <<users, markets, bets, ledger, tick, ops, sockets, clients>>

\* user.save() has written lastActive, the only modified path, and
\* 'authenticated' is emitted.  websocketService.js 36-45
AuthSave(rq) ==
  /\ rq.pc = "a_save"
  /\ req' = (req \ {rq}) \cup
              {[pc |-> "emit", kind |-> "authenticate", slot |-> rq.slot,
                socket |-> rq.socket, event |-> "authenticated"]}
  /\ UNCHANGED <<users, markets, bets, ledger, tick, ops, sockets, clients>>

\* socket.emit: the event leaves for the client and the handler is over.
\* websocketService.js 39, 49, 53
Emit(rq) ==
  /\ rq.pc = "emit"
  /\ req' = req \ {rq}
  /\ UNCHANGED <<users, markets, bets, ledger, tick, ops, sockets, clients>>

\* socket.on('disconnect'): the socket is gone and its entry is deleted
\* from the clients map; handlers of the socket that are waiting go on.
\* websocketService.js 70-73
Disconnect(s) ==
  /\ s \in sockets
  /\ sockets' = sockets \ {s}
  /\ clients' = [x \in DOMAIN clients \ {s} |-> clients[x]]
  /\ UNCHANGED <<users, markets, bets, ledger, tick, req, ops>>

\* getOnlineUsersCount  websocketService.js 162-164
getOnlineUsersCount == Cardinality(DOMAIN clients)

SocketNext ==
  \/ Connect
  \/ \E s \in sockets, token \in Tokens : Authenticate(s, token)
  \/ \E rq \in req : AuthFindUser(rq)
  \/ \E rq \in req : AuthFindBets(rq)
  \/ \E rq \in req : AuthSave(rq)
  \/ \E rq \in req : Emit(rq)
  \/ \E s \in sockets : Disconnect(s)

\* The websocket service alone: sockets connect, authenticate and
\* disconnect in any order.
SocketSpec == Init /\ [][SocketNext]_vars

\* ------------------------------------------------------------- claims ---
RECURSIVE LedgerSum(_, _)
LedgerSum(l, u) ==
  IF l = <<>> THEN 0
  ELSE (IF Head(l).userId = u THEN Head(l).amount ELSE 0)
       + LedgerSum(Tail(l), u)

\* No request is running.
Quiescent == req = {}

NoResolution == \A m \in Markets : markets[m].status = "open"

\* C1: whenever no request is running and no market has been resolved, the
\* amounts of a user's ledger entries add up to the user's balance minus
\* the starting balance.
C1_BalanceConservation ==
  (Quiescent /\ NoResolution) =>
    \A u \in Users : LedgerSum(ledger, u) = users[u].balance - StartingBalance

\* The request that takes the step: its record is replaced or removed.
Stepping(rq) == rq \in req /\ rq \notin req'

\* C2: once the status of a market is stored as resolved, no step of a
\* placement on that market creates a bet or lowers a balance.
C2_NoBetAfterResolution ==
  [][\A rq \in req :
       (/\ Stepping(rq)
        /\ rq.kind = "place"
        /\ rq.pc # "respond"
        /\ rq.market \in Markets
        /\ markets[rq.market].status = "resolved")
       => /\ bets' = bets
          /\ users'[rq.user].balance >= users[rq.user].balance]_vars

\* C3: a user never holds two active bets on one market.
C3_OneActiveBet ==
  \A u \in Users, m \in Markets :
    Cardinality({b \in bets : /\ b.userId = u
                              /\ b.marketId = m
                              /\ b.status = "active"}) <= 1

\* The responses of resolveMarket requests that passed their preconditions.
Resolved ==
  {rq \in req : /\ rq.pc = "respond"
                /\ rq.kind = "resolve"
                /\ rq.status \in {200, 500}}

\* The ledger entries of a bet that have the given type.
Entries(id, type) ==
  {i \in DOMAIN ledger : /\ ledger[i].relatedBetId = id
                         /\ ledger[i].type = type}

\* C6: when resolveMarket has answered, each bet it found active on the
\* winning option is won, pays its potential payout and has exactly one
\* win entry in the ledger, of that payout.
C6_WinnerSettled ==
  \A rq \in Resolved : \A b \in bets :
    (b.id \in rq.activeBets /\ b.option = markets[rq.market].resolution)
    => /\ b.status = "won"
       /\ b.actualPayout = b.potentialPayout
       /\ Cardinality(Entries(b.id, "win")) = 1
       /\ \A i \in Entries(b.id, "win") :
            ledger[i].amount = b.actualPayout

\* C7: when resolveMarket has answered, each bet it found active on a
\* losing option is lost, pays nothing and has exactly one entry of amount
\* 0 in the ledger besides the entry of its placement.
C7_LoserSettled ==
  \A rq \in Resolved : \A b \in bets :
    (b.id \in rq.activeBets /\ b.option # markets[rq.market].resolution)
    => /\ b.status = "lost"
       /\ b.actualPayout = 0
       /\ Cardinality({i \in DOMAIN ledger :
                         /\ ledger[i].relatedBetId = b.id
                         /\ ledger[i].type # "bet"
                         /\ ledger[i].amount = 0}) = 1

\* C8: when resolveMarket has answered, none of the bets it found active is
\* still active.
C8_AllSettled ==
  \A rq \in Resolved : \A b \in bets :
    b.id \in rq.activeBets => b.status \in {"won", "lost"}

\* C9: when the settlement of a bet failed, so that resolveMarket answers
\* 500, at most that one bet of those found active is left unsettled.
C9_FailureIsolated ==
  \A rq \in Resolved :
    rq.status = 500 =>
      Cardinality({b \in bets : /\ b.id \in rq.activeBets
                                /\ b.status \notin {"won", "lost"}}) <= 1

\* C4: the commit of a placement that ran alone leaves the balance of the
\* user at its value on arrival minus the amount, with the bet stored and
\* exactly one ledger entry appended: of type bet, of amount -amount, from
\* the balance on arrival to the balance left.
C4_PlaceDebitsExactly ==
  [][\A rq \in req :
       (Stepping(rq) /\ rq.pc = "p_commit")
       => /\ users'[rq.user].balance = rq.startBalance - rq.amount
          /\ rq.bet \in bets'
          /\ Len(ledger') = rq.startLen + 1
          /\ ledger'[Len(ledger')] =
               [userId |-> rq.user, type |-> "bet",
                amount |-> 0 - rq.amount,
                balanceBefore |-> rq.startBalance,
                balanceAfter |-> users'[rq.user].balance,
                relatedBetId |-> rq.id]]_vars

\* A placement has committed: its bet is stored, its user debited once and
\* its ledger entry written.
C4_Witness ==
  /\ Quiescent
  /\ \E b \in bets :
       /\ b.status = "active"
       /\ users[b.userId].balance = StartingBalance - b.amount
       /\ Cardinality(Entries(b.id, "bet")) = 1

\* The responses that reject a placement for a precondition.
Rejections(S) ==
  {rq \in S : /\ rq.pc = "respond"
              /\ rq.kind = "place"
              /\ rq.status \in {400, 404}}

\* The steps of a placement up to its last precondition.
Checking(S) ==
  {rq \in S : rq.kind = "place" /\ rq.pc \in {"p_findMarket",
                                              "p_findExisting"}}

\* C5: the steps of a placement that check its preconditions and the step
\* that rejects it leave the users, the bets, the ledger and the market as
\* they are.
C5_RejectedPlaceNoEffect ==
  [][(Rejections(req' \ req) \cup Checking(req' \ req)) # {}
       => db' = db]_vars

\* A placement was rejected for each cause a single request can show last:
\* here for the active bet its user already holds.
C5_Witness ==
  \E rq \in Rejections(req) :
    /\ rq.error = "You already have an active bet on this market"
    /\ bets # {}

\* The outcome of the window check of a cancellation by the owner of an
\* active bet on an open market.
WindowCheck(rq) ==
  /\ Stepping(rq)
  /\ rq.pc = "c_findMarket"
  /\ isOpen(rq.market, markets[rq.market])
WindowRejected ==
  \E r2 \in req' \ req :
    /\ r2.pc = "respond"
    /\ r2.error = "Can only cancel bets within 5 minutes of placement"
WindowAccepted ==
  \E r2 \in req' \ req : r2.pc = "c_findUser" /\ r2.bet.status = "refunded"

\* A cancellation that passed the window check goes on to answer 200 with
\* the bet stored as refunded.
AcceptedCancelSucceeds ==
  \A rq \in req :
    (Stepping(rq) /\ rq.kind = "cancel" /\ rq.pc \notin {"c_findMarket",
                                                        "respond"})
    => \A r2 \in req' \ req :
         r2.pc = "respond"
         => /\ r2.status = 200
            /\ \E b \in bets' : b.id = rq.bet.id /\ b.status = "refunded"

\* C10 as stated: the cancellation is rejected at five minutes or more and
\* accepted below five minutes.
C10_RejectedAtFiveMinutes ==
  [][\A rq \in req :
       WindowCheck(rq)
       => LET betAge == now - rq.bet.createdAt IN
          /\ betAge >= GraceMs => WindowRejected
          /\ betAge < GraceMs => WindowAccepted]_vars

\* C10, amended: the cancellation is rejected above five minutes and
\* accepted, and then carried out, at five minutes or less.
C10_RejectedAfterFiveMinutes ==
  [][/\ \A rq \in req :
          WindowCheck(rq)
          => LET betAge == now - rq.bet.createdAt IN
             /\ betAge > GraceMs => WindowRejected
             /\ betAge <= GraceMs => WindowAccepted
     /\ AcceptedCancelSucceeds]_vars

\* A bet was refunded exactly five minutes after its placement.
C10_Witness ==
  \E b \in bets :
    b.status = "refunded" /\ b.settledAt - b.createdAt = GraceMs

\* C11: the commit of a cancellation that ran alone stores the bet as
\* refunded, with its amount as payout and its settlement time set, leaves
\* the balance of the owner at its value on arrival plus the amount, and
\* has appended exactly one ledger entry: of type refund, of amount
\* +amount.
C11_CancelRefundsExactly ==
  [][\A rq \in req :
       (Stepping(rq) /\ rq.pc = "c_commit")
       => /\ \E b \in bets' :
               /\ b.id = rq.bet.id
               /\ b.status = "refunded"
               /\ b.actualPayout = b.amount
               /\ b.settledAt \in {ClockAt(t) : t \in 0..tick}
               /\ b.settledAt >= b.createdAt
          /\ \A b \in bets' : b.id = rq.bet.id => b.status = "refunded"
          /\ users'[rq.user].balance = rq.startBalance + rq.bet.amount
          /\ Len(ledger') = rq.startLen + 1
          /\ ledger'[Len(ledger')] =
               [userId |-> rq.user, type |-> "refund",
                amount |-> rq.bet.amount,
                balanceBefore |-> rq.startBalance,
                balanceAfter |-> users'[rq.user].balance,
                relatedBetId |-> rq.bet.id]]_vars

\* A cancellation has committed: the bet is refunded in full, its owner
\* has the starting balance again and the ledger holds its refund entry.
C11_Witness ==
  /\ Quiescent
  /\ \E b \in bets :
       /\ b.status = "refunded"
       /\ b.actualPayout = b.amount
       /\ users[b.userId].balance = StartingBalance
       /\ Cardinality(Entries(b.id, "refund")) = 1

\* The responses that reject a cancellation for a precondition.
CancelRejections(S) ==
  {rq \in S : /\ rq.pc = "respond"
              /\ rq.kind = "cancel"
              /\ rq.status \in {400, 403, 404}}

\* C12: the step that rejects a cancellation, and the step that passes its
\* first checks, leave the users, the bets, the ledger and the market as
\* they are.
C12_RejectedCancelNoEffect ==
  [][(\/ CancelRejections(req' \ req) # {}
      \/ \E rq \in req' \ req : rq.pc = "c_findMarket")
       => db' = db]_vars

\* A cancellation was rejected because the market had closed, with the bet
\* still active in the store.
C12_Witness ==
  \E rq \in CancelRejections(req) :
    /\ rq.error = "Cannot cancel bet after market has closed"
    /\ \E b \in bets : b.status = "active"

\* C13: in every step, a stored bet stays stored, a bet that was active
\* keeps its status or moves to won, lost or refunded, every other bet keeps
\* its status, and a bet enters the store as active.
C13_StatusOneWay ==
  [][/\ \A b \in bets : \E b2 \in bets' : b2.id = b.id
     /\ \A b \in bets : \A b2 \in bets' :
          b2.id = b.id =>
            \/ b2.status = b.status
            \/ b.status = "active" /\ b2.status \in {"won", "lost", "refunded"}
     /\ \A b2 \in bets' :
          (\A b \in bets : b.id # b2.id) => b2.status = "active"]_vars

\* A cancellation raced a resolution on one bet: resolveMarket found the
\* bet active and the cancellation has stored it as refunded.
C13_Witness ==
  \E rq \in req : \E b \in bets :
    /\ rq.kind = "resolve"
    /\ rq.pc = "respond"
    /\ "activeBets" \in DOMAIN rq
    /\ b.id \in rq.activeBets
    /\ b.status = "refunded"

\* C14: once the status of a market is stored as resolved, no step changes
\* its status, its resolution, its price vector or its total volume.
C14_ResolvedIsTerminal ==
  [][\A m \in Markets :
       markets[m].status = "resolved"
       => /\ markets'[m].status = "resolved"
          /\ markets'[m].resolution = markets[m].resolution
          /\ markets'[m].currentOdds = markets[m].currentOdds
          /\ markets'[m].totalVolume = markets[m].totalVolume]_vars

\* C15: when a placement that ran alone is aborted by a failure of the
\* storage, the balance of its user is the balance on arrival, no bet of the placement
\* is stored and no ledger entry of the placement exists.
C15_AbortedPlaceLeavesNothing ==
  [][\A rq \in req :
       (/\ Stepping(rq)
        /\ rq.kind = "place"
        /\ rq.pc # "respond"
        /\ \E r2 \in req' \ req :
             /\ r2.pc = "respond"
             /\ r2.slot = rq.slot
             /\ r2.status = 500
             /\ r2.error = "Server error")
       => /\ users'[rq.user].balance = rq.startBalance
          /\ \A b \in bets' : b.id # rq.id
          /\ \A i \in DOMAIN ledger' : ledger'[i].relatedBetId # rq.id]_vars

\* The ledger entries of a user replayed in creation order from a balance.
RECURSIVE Replays(_, _, _)
Replays(l, u, balance) ==
  IF l = <<>> THEN balance = users[u].balance
  ELSE IF Head(l).userId # u THEN Replays(Tail(l), u, balance)
  ELSE /\ Head(l).balanceBefore = balance
       /\ Replays(Tail(l), u, Head(l).balanceAfter)

\* C16: whenever no request is running, the ledger entries of every user
\* chain from the starting balance to the current balance: each entry
\* starts at the balance the previous one left and the last one leaves the
\* current balance.
C16_LedgerReplays ==
  Quiescent => \A u \in Users : Replays(ledger, u, StartingBalance)

\* C17: every step keeps the ledger entries it found, in their order and
\* unchanged, and every entry of the ledger leaves the balance it started
\* from plus its amount.
C17_LedgerAppendOnly ==
  [][/\ Len(ledger') >= Len(ledger)
     /\ \A i \in DOMAIN ledger : ledger'[i] = ledger[i]
     /\ \A i \in DOMAIN ledger' :
          ledger'[i].balanceAfter = ledger'[i].balanceBefore + ledger'[i].amount
    ]_vars

\* The ledger holds the entry of a placement, of a refund and of an admin
\* adjustment.
C17_Witness ==
  \A t \in {"bet", "refund", "admin_adjustment"} :
    \E i \in DOMAIN ledger : ledger[i].type = t /\ ledger[i].amount # 0

ResolveRejections(S) ==
  {rq \in S : /\ rq.pc = "respond"
              /\ rq.kind = "resolve"
              /\ rq.status \in {400, 404}}

\* C19: the step that rejects a resolution leaves the market, the bets, the
\* users and the ledger as they are.
C19_RejectedResolveNoEffect ==
  [][ResolveRejections(req' \ req) # {} => db' = db]_vars

\* A resolution was rejected because the market is already resolved.
C19_Witness ==
  \E rq \in ResolveRejections(req) :
    /\ rq.error = "Market cannot be resolved"
    /\ \E m \in Markets : markets[m].status = "resolved"

\* C20: the answer of resolveMarket carries a settledCount and a
\* failedCount: together the number of bets found active, the first the
\* number of those now won or lost, the second the number still active.
C20_CountsReturned ==
  \A rq \in Resolved :
    /\ {"settledCount", "failedCount"} \subseteq DOMAIN rq
    /\ rq.settledCount + rq.failedCount = Cardinality(rq.activeBets)
    /\ rq.settledCount =
         Cardinality({b \in bets : /\ b.id \in rq.activeBets
                                   /\ b.status \in {"won", "lost"}})
    /\ rq.failedCount =
         Cardinality({b \in bets : /\ b.id \in rq.activeBets
                                   /\ b.status = "active"})

\* ---------------------------------------------------------------------
\* C21: in every reachable state of every market, whatever its type and
\* its number of options, the keys of the stored price vector are exactly
\* the options of the market.
C21_KeysAreOptions ==
  \A m \in DOMAIN markets :
    DOMAIN markets[m].currentOdds = Range(MarketConfig[m].options)

\* The values of a price vector added up, in ten-thousandths.
RECURSIVE SumValues(_, _)
SumValues(odds, liquidity) ==
  IF DOMAIN odds = {} THEN 0
  ELSE LET o == CHOOSE x \in DOMAIN odds : TRUE IN
       Value(odds[o], liquidity)
         + SumValues([x \in DOMAIN odds \ {o} |-> odds[x]], liquidity)
SumsToOne(odds, liquidity) ==
  LET sum == SumValues(odds, liquidity) IN sum >= 9990 /\ sum <= 10010

\* C22: while a market is open the values of its stored price vector sum
\* to 1, within a thousandth, after creation and after every recomputation.
C22_PricesSumToOne ==
  \A m \in DOMAIN markets :
    markets[m].status = "open" =>
      SumsToOne(markets[m].currentOdds, MarketConfig[m].liquidity)

\* A recomputation that has returned having found no active stake.
ZeroPool(rq) ==
  rq.pc = "priced" /\ SumAmount(ActiveBets(rq.market)) = 0

\* C23: a recomputation that finds a total pool of 0 leaves 0.5 on both
\* options of a binary market and exactly 1/N on each of the N options of
\* a market of another type.
C23_ZeroPoolFallback ==
  \A rq \in req :
    ZeroPool(rq) =>
      LET cfg == MarketConfig[rq.market]
          odds == rq.marketDoc.currentOdds
          n == Len(cfg.options)
      IN IF cfg.type = "binary"
         THEN \A i \in {1, 2} :
                /\ cfg.options[i] \in DOMAIN odds
                /\ odds[cfg.options[i]] = Lmsr(0)
                /\ Value(odds[cfg.options[i]], cfg.liquidity) = 5000
         ELSE /\ DOMAIN odds = Range(cfg.options)
              /\ \A o \in DOMAIN odds :
                    /\ odds[o] = Frac(n)
                    /\ Value(odds[o], cfg.liquidity) = 10000 \div n
C23_Witness ==
  \E rq \in req :
    /\ ZeroPool(rq)
    /\ MarketConfig[rq.market].type = "multiple"
    /\ Len(MarketConfig[rq.market].options) = 3
    /\ rq.marketDoc.currentOdds["maybe"] = Frac(3)

\* ---------------------------------------------------------------------
\* Two payouts are the same number: a payout is a plain number or the
\* quotient of an amount and a price.
SamePayout(x, y) == ToString(x) = ToString(y)

Answer(rq) == {r2 \in req' \ req : r2.pc = "respond" /\ r2.slot = rq.slot}

\* C25: the step of a placement that commits its transaction answers with
\* success (201) whatever happens to the event, and a step of a placement
\* that answers with an error leaves the bet of the placement unstored, the
\* balance of its user at the balance on arrival and the ledger without an
\* entry of the placement.
C25_OutcomeAgreesWithState ==
  [][\A rq \in req :
       (Stepping(rq) /\ rq.kind = "place" /\ rq.pc # "respond")
       => /\ rq.pc = "p_commit" => \E r2 \in Answer(rq) : r2.status = 201
          /\ (\E r2 \in Answer(rq) : r2.status >= 400)
               => /\ users'[rq.user].balance = rq.startBalance
                  /\ \A b \in bets' : b.id # rq.id
                  /\ \A i \in DOMAIN ledger' :
                       ledger'[i].relatedBetId # rq.id]_vars

\* ---------------------------------------------------------------------
\* The pricing function applied to the pool of the bets S of market m.
PriceOf(m, S) ==
  IF SumAmount(S) = 0 THEN calculateInitialOdds(MarketConfig[m])
  ELSE LmsrOdds(MarketConfig[m], S)

\* C26: whenever no request is running, the stored price vector of every
\* market is the pricing function applied to the pool of exactly the bets
\* that are active then, and the initial vector when none is.
C26_PricesFollowPool ==
  Quiescent =>
    \A m \in DOMAIN markets :
      markets[m].currentOdds = PriceOf(m, ActiveBets(m))

\* ---------------------------------------------------------------------
\* The bet second captured the price of its option computed from a pool
\* that includes the bet first.
PricedAfter(first, second) ==
  \E S \in SUBSET {b \in bets : b.marketId = second.marketId /\ b # second} :
    /\ first \in S
    /\ second.oddsAtTime =
         LmsrOdds(MarketConfig[second.marketId], S)[second.option]

\* C27: of any two active bets accepted on the same market, the one
\* accepted second has as oddsAtTime the price of its option computed from
\* a pool that includes the other; never have both captured a price
\* computed before either.
C27_NoStaleOdds ==
  \A b1 \in bets, b2 \in bets :
    (/\ b1 # b2
     /\ b1.marketId = b2.marketId
     /\ b1.status = "active"
     /\ b2.status = "active")
    => PricedAfter(b1, b2) \/ PricedAfter(b2, b1)

\* ---------------------------------------------------------------------
\* The stakes of user u that are held: placed and not refunded.
Staked(u) == SumAmount({b \in bets : b.userId = u /\ b.status = "active"})

\* C28: whenever no request is running, the balance of every user is the
\* starting balance plus the deltas of all accepted operations on it: minus
\* the amount of every bet placed, plus the amount of every bet refunded.
C28_NoLostUpdate ==
  Quiescent => \A u \in Users : users[u].balance = StartingBalance - Staked(u)

\* ---------------------------------------------------------------------
\* The ledger entries of bet b appended by the step.
Appended(b) ==
  {i \in DOMAIN ledger' : i > Len(ledger) /\ ledger'[i].relatedBetId = b.id}

C30_ResolvedBeforeSettlement ==
  [][/\ \A rq \in req :
          (Stepping(rq) /\ rq.kind = "resolve" /\ rq.pc = "r_findBets")
          => /\ markets[rq.market].status = "resolved"
             /\ markets[rq.market].resolution
                  \in Range(MarketConfig[rq.market].options)
             /\ markets[rq.market].resolutionDate >= 0
     /\ \A b \in bets' :
          b.status \in {"won", "lost"}
          => /\ markets[b.marketId].status = "resolved"
             /\ markets'[b.marketId].status = "resolved"]_vars

\* resolveMarket is about to settle an active bet of a market it has stored
\* as resolved.
C30_Witness ==
  \E rq \in req :
    /\ rq.kind = "resolve"
    /\ rq.pc = "r_findBets"
    /\ ActiveBets(rq.market) # {}
    /\ markets[rq.market].status = "resolved"
    /\ markets[rq.market].resolution = rq.marketDoc.resolution
    /\ markets[rq.market].resolutionDate = rq.marketDoc.resolutionDate

\* ---------------------------------------------------------------------
\* C31: a bet is turned into money at most once: the ledger holds at most
\* one refund or win entry for it, however cancellations of the bet and its
\* settlement interleave.
C31_BetCreditedOnce ==
  \A id \in BetIds :
    Cardinality(Entries(id, "refund") \cup Entries(id, "win")) <= 1

\* ---------------------------------------------------------------------
\* The error of the first precondition that fails, in the stated order:
\* the market exists and is open, the option is one of the market, the
\* amount is at least 1, the balance covers it, no active bet is held.
FirstFailure(u, m, o, a) ==
  IF m \notin Markets THEN "Market not found"
  ELSE IF ~isOpen(m, markets[m]) THEN "Market is not open for betting"
  ELSE IF o \notin Range(MarketConfig[m].options)
  THEN "Invalid betting option"
  ELSE IF a < 1 THEN "Validation failed"
  ELSE IF users[u].balance < a THEN "Insufficient balance"
  ELSE IF existingBet(u, m)
  THEN "You already have an active bet on this market"
  ELSE "none"

\* C32: a placement that is rejected for a precondition reports the error
\* of the first precondition that fails in the stated order.
C32_FirstFailureWins ==
  [][/\ \A u \in Users, m \in MarketIds, o \in OptionInputs, a \in Amounts :
          PlaceBegin(u, m, o, a)
          => \A r2 \in req' \ req :
               r2.pc = "respond" => r2.error = FirstFailure(u, m, o, a)
     /\ \A rq \in Checking(req) :
          Stepping(rq)
          => \A r2 \in Answer(rq) :
               r2.error =
                 FirstFailure(rq.user, rq.market, rq.option, rq.amount)]_vars

\* ---------------------------------------------------------------------
\* C33: the commit of a placement leaves participantCount of the market at
\* the number of distinct users with a bet of any status on the market,
\* the user of the placement among them.
C33_ParticipantsCounted ==
  [][\A rq \in req :
       (Stepping(rq) /\ rq.kind = "place" /\ rq.pc = "p_commit")
       => /\ rq.user \in {b.userId : b \in {x \in bets' :
                                               x.marketId = rq.market}}
          /\ markets'[rq.market].participantCount =
               Cardinality({b.userId : b \in {x \in bets' :
                                                x.marketId = rq.market}})]_vars
\* ---------------------------------------------------------------------
\* C34: totalVolume of a market never decreases, and whenever no request
\* is running it is the stake accumulated on the market: the sum of the
\* amounts of all bets placed on it, cancelled or not.
C34_VolumeAccumulates ==
  [][\A m \in DOMAIN markets :
       /\ markets'[m].totalVolume >= markets[m].totalVolume
       /\ markets'[m].totalVolume >= 0
       /\ req' = {} => markets'[m].totalVolume =
                         SumAmount({b \in bets' : b.marketId = m})]_vars
\* ---------------------------------------------------------------------
\* C35: the steps of resolveMarket, the settlement among them, leave the
\* price vector, totalVolume and participantCount of the market as they
\* are stored.
C35_SettlementKeepsMarket ==
  [][\A rq \in req :
       (Stepping(rq) /\ rq.kind = "resolve" /\ rq.pc # "respond")
       => /\ markets'[rq.market].currentOdds = markets[rq.market].currentOdds
          /\ markets'[rq.market].totalVolume = markets[rq.market].totalVolume
          /\ markets'[rq.market].participantCount =
               markets[rq.market].participantCount]_vars

\* resolveMarket has come to the end of its settlement on a market that
\* has active bets and prices that are no longer the initial ones.
C35_Witness ==
  \E rq \in Resolved :
    /\ rq.activeBets # {}
    /\ markets[rq.market].status = "resolved"
    /\ markets[rq.market].totalVolume > 0
    /\ markets[rq.market].currentOdds
         # calculateInitialOdds(MarketConfig[rq.market])

\* ---------------------------------------------------------------------
\* The terms of a bet.
Terms(b) ==
  <<b.userId, b.marketId, b.option, b.amount, ToString(b.oddsAtTime),
    ToString(b.potentialPayout)>>

\* C36: a placement creates its bet with the user, market, option and
\* amount of the request, with the price of the option in the market it
\* loaded as oddsAtTime and with amount / oddsAtTime as potentialPayout; the
\* bet is stored with these terms, and no step of any request changes the
\* terms of a stored bet, nor does Bet.refund or Bet.settle applied to it.
C36_BetTermsFixed ==
  [][/\ \A b \in bets :
          /\ \E b2 \in bets' : b2.id = b.id
          /\ \A b2 \in bets' : b2.id = b.id => Terms(b2) = Terms(b)
          /\ Terms(refund(b)) = Terms(b)
          /\ \A r \in Range(MarketConfig[b.marketId].options) :
               Terms(settle(b, r)) = Terms(b)
     /\ \A rq \in req :
          (Stepping(rq) /\ rq.kind = "place" /\ rq.pc = "p_findExisting")
          => \A r2 \in req' \ req :
               (r2.slot = rq.slot /\ r2.pc # "respond")
               => Terms(r2.bet) =
                    <<rq.user, rq.market, rq.option, rq.amount,
                      ToString(rq.marketDoc.currentOdds[rq.option]),
                      ToString([num |-> rq.amount,
                                den |-> rq.marketDoc.currentOdds[rq.option]])>>
     /\ \A rq \in req :
          (Stepping(rq) /\ rq.kind = "place" /\ rq.pc = "p_commit")
          => \E b \in bets' \ bets : b.id = rq.id /\ Terms(b) = Terms(rq.bet)
    ]_vars

\* A bet has been refunded and another user has placed a bet after it was
\* placed; the refunded bet has the terms of its placement.
C36_Witness ==
  \E b \in bets, b2 \in bets :
    /\ b.status = "refunded"
    /\ b2.userId # b.userId
    /\ b2.id > b.id
    /\ b.amount = 400
    /\ b.oddsAtTime = Lmsr(0)
    /\ b.potentialPayout = [num |-> 400, den |-> Lmsr(0)]

\* ---------------------------------------------------------------------
\* The cancellation rq arrived right after the placement of its bet: the
\* last ledger entry it found is the bet entry of that bet.
RightAfterPlacement(rq) ==
  /\ rq.startLen > 0
  /\ ledger[rq.startLen].type = "bet"
  /\ ledger[rq.startLen].relatedBetId = rq.bet.id
  /\ ledger[rq.startLen].userId = rq.user

\* C37: the commit of a cancellation that came right after the placement
\* of its bet leaves the balance of the user at its value before the
\* placement.
C37_PlaceCancelRoundTrip ==
  [][\A rq \in req :
       (/\ Stepping(rq)
        /\ rq.kind = "cancel"
        /\ rq.pc = "c_commit"
        /\ RightAfterPlacement(rq))
       => /\ users'[rq.user].balance = ledger[rq.startLen].balanceBefore
          /\ users'[rq.user].balance = rq.startBalance + rq.bet.amount
          /\ users'[rq.user].balance =
               StartingBalance
                 - SumAmount({b \in bets' : /\ b.userId = rq.user
                                            /\ b.status = "active"})]_vars

\* A user has placed a bet and cancelled it right away, and has the
\* starting balance again.
C37_Witness ==
  /\ Len(ledger) = 2
  /\ \E b \in bets :
       /\ b.status = "refunded"
       /\ ledger[1].type = "bet" /\ ledger[1].relatedBetId = b.id
       /\ ledger[2].type = "refund" /\ ledger[2].relatedBetId = b.id
       /\ ledger[1].balanceBefore = ledger[2].balanceAfter
       /\ users[b.userId].balance = ledger[1].balanceBefore
       /\ \A rq \in req : rq.pc = "respond"

\* ---------------------------------------------------------------------
\* The bets of user u that have one of the given statuses.
BetsOf(u, statuses) == {b \in bets : b.userId = u /\ b.status \in statuses}

\* C38: whenever no request is running and a user has no active bet left,
\* totalBets of the user is the number of the user's bets that were won or
\* lost, cancelled bets not counted, winningBets is the number of those
\* won, winningBets <= totalBets and winRate is winningBets / totalBets * 100.
C38_CountersMatchBets ==
  \A u \in Users :
    (Quiescent /\ BetsOf(u, {"active"}) = {})
    => /\ users[u].totalBets = Cardinality(BetsOf(u, {"won", "lost"}))
       /\ users[u].winningBets = Cardinality(BetsOf(u, {"won"}))
       /\ users[u].winningBets <= users[u].totalBets
       /\ users[u].totalBets > 0 =>
            users[u].winRate * users[u].totalBets
              = users[u].winningBets * 100

\* ---------------------------------------------------------------------
\* C39: in every state the clients map holds only sockets that are
\* connected, so getOnlineUsersCount counts no disconnected socket, also
\* when a socket disconnects while its authenticate handler is waiting.
C39_OnlyConnectedClients ==
  /\ \A s \in DOMAIN clients : s \in sockets
  /\ getOnlineUsersCount = Cardinality(DOMAIN clients \cap sockets)

====
